---------------------------- MODULE Spec2Model ----------------------------
(***************************************************************************)
(* Pixel classification of multi-band satellite imagery (ot_sip).          *)
(*                                                                         *)
(* The model follows src/code/satimgproc/classify.py (DataPreprocessor,    *)
(* DecisionTree, KMeans) and the two dialogs that drive it,                *)
(* src/code/interface/supervised_ui.py and unsupervised_ui.py.             *)
(*                                                                         *)
(* numpy arrays are records [kind, shape, buf]: buf is the sequence of the *)
(* elements in C (row-major) order, which is the order reshape keeps.      *)
(***************************************************************************)
EXTENDS Integers, Sequences, FiniteSets, TLC

\* ------------------------------------------------------------------ bounds

\* Largest number of rows, and of columns, of an input raster.
MaxDim == 2
\* Largest number of band files selected in a dialog.
MaxBands == 2
\* Largest number of times a dialog's Run button is pressed.
MaxRuns == 2
\* Largest number of labels in an array given to AccuracyAssessor.
MaxLen == 4
\* Largest number of times one method is called on one object directly.
MaxCalls == 2

\* ------------------------------------------------------------- basic values

\* np.nan, as np.isnan sees it: one value different from every number a band holds.
NaN == -999

IsNaN(x) == x = NaN

None == [kind |-> "None"]

\* A local name bound to a sequence value (None while it is unbound).
Bound(v) == [kind |-> "bound", v |-> v]

\* An ndarray of the given shape whose element at C-order position i is f[i].
NdArray(shape, buf) == [kind |-> "ndarray", shape |-> shape, buf |-> buf]

\* a[r, c] of a 2-D array and a[r, c, k] of a 3-D array (0-based, as in numpy).
At2(a, r, c) == a.buf[r * a.shape[2] + c + 1]
At3(a, r, c, k) == a.buf[(r * a.shape[2] + c) * a.shape[3] + k + 1]

\* ------------------------------------------------------------ raster files

\* What rasterio finds in a band file: the raster's size, the number of bands it
\* holds, the cells without data, and the georeferencing (id stands for the
\* file's transform and CRS).  The value of a cell with data is unique to the
\* file, the band and the position.
CellValue(f, band, r, c) ==
    IF <<band, r, c>> \in f.nan THEN NaN
    ELSE f.id * 1000 + band * 100 + r * 10 + c

\* src.read(band): the 2-D array (rows, cols) of one band, bands numbered from 1.
ReadBand(f, band) ==
    NdArray(<<f.rows, f.cols>>,
            [i \in 1..(f.rows * f.cols) |->
                CellValue(f, band, (i - 1) \div f.cols, (i - 1) % f.cols)])

\* src.meta
FileMeta(f) ==
    [transform |-> f.id, height |-> f.rows, width |-> f.cols,
     count |-> f.count, dtype |-> "float32"]

\* ------------------------------------------------------------- stack_bands

\* np.stack as it would be if it cut every band to the smallest size.
NpStackCrop(bands) ==
    IF Len(bands) = 0
      THEN [ok |-> FALSE, err |-> "ValueError", value |-> None]
    ELSE LET Min(S) == CHOOSE x \in S : \A y \in S : x <= y
             h == Min({bands[i].shape[1] : i \in 1..Len(bands)})
             w == Min({bands[i].shape[2] : i \in 1..Len(bands)})
             n == Len(bands)
         IN [ok |-> TRUE, err |-> "",
             value |-> NdArray(<<h, w, n>>,
                 [i \in 1..(h * w * n) |->
                     At2(bands[((i - 1) % n) + 1],
                         ((i - 1) \div n) \div w, ((i - 1) \div n) % w)])]

\* np.stack(bands, axis=-1): ValueError for no array and for arrays of different
\* shapes, else out[r, c, k] = bands[k][r, c].
NpStackLast(bands) ==
    IF Len(bands) = 0
      THEN [ok |-> FALSE, err |-> "ValueError", value |-> None]
    ELSE IF \E i \in 1..Len(bands) : bands[i].shape # bands[1].shape
      THEN [ok |-> FALSE, err |-> "ValueError", value |-> None]
    ELSE LET h == bands[1].shape[1]
             w == bands[1].shape[2]
             n == Len(bands)
         IN [ok |-> TRUE, err |-> "",
             value |-> NdArray(<<h, w, n>>,
                 [i \in 1..(h * w * n) |->
                     At2(bands[((i - 1) % n) + 1],
                         ((i - 1) \div n) \div w, ((i - 1) \div n) % w)])]

\* src.read(src.count): the last band of the file.
BandReadLast(f) == ReadBand(f, f.count)

\* The band read from each file: src.read(1).
BandRead(f) == ReadBand(f, 1)

\* The metadata of the first file of the list.
MetaSourceFirst(files) == files[1]

\* The file whose metadata is kept: src is the loop variable after the loop.
MetaSource(files) == files[Len(files)]

\* DataPreprocessor.stack_bands: the arrays read, stacked; the metadata kept.
StackBands(files) ==
    LET st == NpStackLast([i \in 1..Len(files) |-> BandRead(files[i])])
    IN IF st.ok
         THEN [ok |-> TRUE, err |-> "", image_array |-> st.value,
               meta |-> FileMeta(MetaSource(files))]
         ELSE [ok |-> FALSE, err |-> st.err, image_array |-> None, meta |-> None]

\* ------------------------------------------------------ training polygons

\* A mask that takes one row and one column too many.
GeometryMaskInclusive(geom, h, w, transform) ==
    [i \in 1..(h * w) |->
        LET r == (i - 1) \div w
            c == (i - 1) % w
        IN /\ geom.r0 <= r /\ r <= geom.r0 + geom.k
           /\ geom.c0 <= c /\ c <= geom.c0 + geom.k]

\* A feature of the shapefile: a square block of k x k cells whose upper left
\* cell is (r0, c0) in the pixel grid of the co-registered rasters (k = 0: a
\* degenerate geometry), and the value of its class attribute.
\* rasterio.features.geometry_mask(..., invert=True): TRUE at the cells of the
\* (h, w) grid that the geometry covers; what lies outside the grid is cut off.
GeometryMask(geom, h, w, transform) ==
    [i \in 1..(h * w) |->
        LET r == (i - 1) \div w
            c == (i - 1) % w
        IN /\ geom.r0 <= r /\ r < geom.r0 + geom.k
           /\ geom.c0 <= c /\ c < geom.c0 + geom.k]

\* image_array[r, c, :], the band vector of one pixel.
PixelVector(img, r, c) == [k \in 1..img.shape[3] |-> At3(img, r, c, k - 1)]

\* np.isnan(row).any()
HasNaN(row) == \E k \in 1..Len(row) : IsNaN(row[k])

\* A filter that looks at the first band only.
KeepRowFirstBand(row) == ~IsNaN(row[1])

\* The rows kept of the rows selected: samples[~np.isnan(samples).any(axis=1)].
KeepRow(row) == ~HasNaN(row)

\* image_array[mask] followed by the NaN filter: the band vectors of the masked
\* pixels in C order, without the rows that hold a NaN.
PolygonSamples(img, mask) ==
    LET h == img.shape[1]
        w == img.shape[2]
        RECURSIVE Go(_)
        Go(i) == IF i > h * w THEN <<>>
                 ELSE LET row == PixelVector(img, (i - 1) \div w, (i - 1) % w)
                      IN (IF mask[i] /\ KeepRow(row) THEN <<row>> ELSE <<>>)
                         \o Go(i + 1)
    IN Go(1)

\* np.full(n, label)
NpFull(n, v) == [i \in 1..n |-> v]

\* The label given to the samples of a feature: row[self.class_attr].
SampleLabel(feature) == feature.label

\* The loop over gdf.iterrows(): X_all = np.vstack(X), y_all = np.concatenate(y).
\* Both raise ValueError for an empty list (a shapefile without features).
GatherSamples(img, meta, features) ==
    LET RECURSIVE Go(_)
        Go(j) ==
            IF j > Len(features) THEN [X |-> <<>>, y |-> <<>>]
            ELSE LET s == PolygonSamples(img,
                              GeometryMask(features[j].geom, img.shape[1],
                                           img.shape[2], meta.transform))
                     rest == Go(j + 1)
                 IN [X |-> s \o rest.X,
                     y |-> NpFull(Len(s), SampleLabel(features[j])) \o rest.y]
    IN Go(1)

\* ------------------------------------------------------- train_test_split

\* The generator behind random_state: a linear congruential generator stands
\* for numpy's Mersenne Twister; a RandomState made from a seed starts in the
\* state the seed fixes.
RngNext(s) == (25173 * s + 13849) % 65536
RngSeed(seed) == seed % 65536

\* rng.permutation(n): arange(n) shuffled by Fisher-Yates from i = n-1 down to
\* 1, one draw j in 0..i per step.  Returns the permutation (0-based values in
\* a 1-based sequence) and the generator's state afterwards.
Swap(p, a, b) == [p EXCEPT ![a] = p[b], ![b] = p[a]]

RngPermutation(state, n) ==
    LET RECURSIVE Go(_, _, _)
        Go(i, s, p) ==
            IF i < 1 THEN [perm |-> p, state |-> s]
            ELSE LET s1 == RngNext(s)
                     j == (s1 \div 256) % (i + 1)
                 IN Go(i - 1, s1, Swap(p, i + 1, j + 1))
    IN Go(n - 1, state, [i \in 1..n |-> i - 1])

\* test_size of the call.  n_test = ceil(test_size * n); for every n below
\* 2000 the float product 0.2 * n has the ceiling of n / 5.
TestPercent == 20
NTest(n) == (n * TestPercent + 99) \div 100
NTrain(n) == n - NTest(n)

\* random_state of the call.
SplitSeed == 42

\* random_state=None: the split draws from the global generator.
SplitRngGlobal(global_state) == global_state

\* The generator state the split draws from: a fresh RandomState(random_state).
SplitRngState(global_state) == RngSeed(SplitSeed)

\* A train part that starts one row early.
IndTrainOverlap(perm, n) == SubSeq(perm, NTest(n), NTest(n) + NTrain(n))

\* The rows of the permutation that make the test part and the train part:
\* permutation[:n_test] and permutation[n_test:n_test + n_train].
IndTest(perm, n) == SubSeq(perm, 1, NTest(n))
IndTrain(perm, n) == SubSeq(perm, NTest(n) + 1, NTest(n) + NTrain(n))

Take(a, ind) == [i \in 1..Len(ind) |-> a[ind[i] + 1]]

\* A split that does not look at the number of samples before it makes the
\* train part: no sample gives two empty parts.
TrainTestSplitUnchecked(X, y, global_state) ==
    LET n == Len(X)
    IN IF n > 0 /\ NTrain(n) = 0
         THEN [ok |-> FALSE, err |-> "ValueError"]
       ELSE [ok |-> TRUE, err |-> "",
             X_train |-> SubSeq(X, NTest(n) + 1, n), X_test |-> SubSeq(X, 1, NTest(n)),
             y_train |-> SubSeq(y, NTest(n) + 1, n), y_test |-> SubSeq(y, 1, NTest(n)),
             ind_train |-> <<>>, ind_test |-> <<>>]

\* sklearn.model_selection.train_test_split(X, y, test_size=0.2,
\* random_state=42): ValueError when there is no sample or the train part
\* would be empty; else the rows of X and y taken by the two index lists.
TrainTestSplit(X, y, global_state) ==
    LET n == Len(X)
    IN IF n = 0 \/ NTrain(n) = 0
         THEN [ok |-> FALSE, err |-> "ValueError"]
       ELSE LET perm == RngPermutation(SplitRngState(global_state), n).perm
                tr == IndTrain(perm, n)
                te == IndTest(perm, n)
            IN [ok |-> TRUE, err |-> "",
                X_train |-> Take(X, tr), X_test |-> Take(X, te),
                y_train |-> Take(y, tr), y_test |-> Take(y, te),
                ind_train |-> tr, ind_test |-> te]

\* A shapefile read that comes before the check of the stack.
ExtractReadsShapefileFirst(img, meta) == TRUE

\* Whether extract_training_data gets to gpd.read_file: only past the check
\* of image_array and meta, which raises ValueError.
ExtractReadsShapefile(img, meta) == img # None /\ meta # None

\* DataPreprocessor.extract_training_data
ExtractTrainingData(img, meta, features, global_state) ==
    IF img = None \/ meta = None
      THEN [ok |-> FALSE, err |-> "ValueError"]
    ELSE IF Len(features) = 0
      THEN [ok |-> FALSE, err |-> "ValueError"]
    ELSE LET g == GatherSamples(img, meta, features)
         IN TrainTestSplit(g.X, g.y, global_state)

\* ------------------------------------------------------------ DecisionTree

Range(s) == {s[i] : i \in DOMAIN s}

\* Depth-one trees whose leaves hold the positions of the classes in sorted
\* order, 0, 1, ..., in place of the classes of y.
FittedTreesEncoded(X, y) ==
    { [feature |-> f, threshold |-> X[1][f], left |-> l, right |-> r,
       nan_left |-> nl] :
        f \in 1..Len(X[1]), l \in 0..(Cardinality(Range(y)) - 1),
        r \in 0..(Cardinality(Range(y)) - 1), nl \in BOOLEAN }

\* What DecisionTree.train can leave in self.model.  sklearn's fitted tree is
\* a function of the band vector whose values are classes of y; the trees of
\* depth one stand for it: a test "row[feature] <= threshold" on a value of
\* the training rows, a class of y on either side, and the side a missing
\* value is sent to.
FittedTrees(X, y) ==
    { [feature |-> f, threshold |-> X[1][f], left |-> l, right |-> r,
       nan_left |-> nl] :
        f \in 1..Len(X[1]), l \in Range(y), r \in Range(y), nl \in BOOLEAN }

\* DecisionTree.train(X, y) = self.model.fit(X, y), with no check of its own:
\* sklearn raises ValueError for no sample or for X and y of different
\* lengths, and fits any other y, a y of one class too.
DecisionTreeTrain(X, y) ==
    IF Len(X) = 0 \/ Len(X) # Len(y)
      THEN [ok |-> FALSE, err |-> "ValueError", models |-> {}]
      ELSE [ok |-> TRUE, err |-> "", models |-> FittedTrees(X, y)]

\* The label the fitted tree gives one row.
TreeLabel(tree, row) ==
    IF IsNaN(row[tree.feature])
      THEN (IF tree.nan_left THEN tree.left ELSE tree.right)
    ELSE IF row[tree.feature] <= tree.threshold THEN tree.left
    ELSE tree.right

\* DecisionTree.predict(X) = self.model.predict(X).  sklearn before 1.3
\* raises ValueError for an X that holds a NaN (nan_support = FALSE); later
\* versions send the missing value down the tree.
TreePredict(tree, X, nan_support) ==
    IF ~nan_support /\ \E i \in 1..Len(X) : HasNaN(X[i])
      THEN [ok |-> FALSE, err |-> "ValueError", labels |-> <<>>]
      ELSE [ok |-> TRUE, err |-> "",
            labels |-> [i \in 1..Len(X) |-> TreeLabel(tree, X[i])]]

\* ------------------------------------------------------------------ KMeans

\* The default of the parameter n_clusters of KMeans.__init__.
DefaultClusters == 5

SqDist(a, b) ==
    LET RECURSIVE Go(_)
        Go(k) == IF k = 0 THEN 0
                 ELSE (a[k] - b[k]) * (a[k] - b[k]) + Go(k - 1)
    IN Go(Len(a))

\* A fit that lowers the number of clusters to the number of rows it is given.
KMeansFitAuto(X, n_clusters, seed) ==
    IF Len(X) = 0 \/ n_clusters < 1
      THEN [ok |-> FALSE, err |-> "ValueError", centers |-> <<>>]
      ELSE LET perm == RngPermutation(RngSeed(seed), Len(X)).perm
               k == IF Len(X) < n_clusters THEN Len(X) ELSE n_clusters
           IN [ok |-> TRUE, err |-> "", centers |-> [j \in 1..k |-> X[perm[j] + 1]]]

\* KMeans.fit(X) with n_clusters and random_state: ValueError for fewer rows
\* than clusters; the centres are the rows the seeded generator draws.
KMeansFit(X, n_clusters, seed) ==
    IF Len(X) < n_clusters \/ Len(X) = 0 \/ n_clusters < 1
      THEN [ok |-> FALSE, err |-> "ValueError", centers |-> <<>>]
      ELSE LET perm == RngPermutation(RngSeed(seed), Len(X)).perm
           IN [ok |-> TRUE, err |-> "",
               centers |-> [j \in 1..n_clusters |-> X[perm[j] + 1]]]

\* The index (from 0) of the nearest centre, the lowest one among equals.
NearestCenter(centers, row) ==
    CHOOSE j \in 0..(Len(centers) - 1) :
        \A j2 \in 0..(Len(centers) - 1) :
            \/ SqDist(centers[j + 1], row) < SqDist(centers[j2 + 1], row)
            \/ (SqDist(centers[j + 1], row) = SqDist(centers[j2 + 1], row)
                /\ j <= j2)

\* KMeans.classify(X) = self.model.predict(X)
KMeansClassify(centers, X) ==
    [i \in 1..Len(X) |-> NearestCenter(centers, X[i])]

\* -------------------------------------------------------------- MainWindow

\* A path is the sequence of its characters; "" is the empty sequence.
\* path.endswith(name)
EndsWith(path, name) ==
    /\ Len(name) <= Len(path)
    /\ SubSeq(path, Len(path) - Len(name) + 1, Len(path)) = name

\* path.split("/")[-1]: what follows the last "/".
FileName(path) ==
    LET slashes == {i \in 1..Len(path) : path[i] = "/"}
        last == IF slashes = {} THEN 0
                ELSE CHOOSE i \in slashes : \A j \in slashes : j <= i
    IN SubSeq(path, last + 1, Len(path))

\* file_path in self.layer_items
IsLoaded(items, path) == \E i \in 1..Len(items) : items[i].path = path

\* The loop of remove_layer over self.layer_items: the position of the first
\* path, in insertion order, that ends with the name; 0 when there is none.
PathToRemove(items, name) ==
    IF \E i \in 1..Len(items) : EndsWith(items[i].path, name)
      THEN CHOOSE i \in 1..Len(items) :
              /\ EndsWith(items[i].path, name)
              /\ \A j \in 1..Len(items) : EndsWith(items[j].path, name) => i <= j
      ELSE 0

\* The loop of remove_layer over the tree: the position of the first entry
\* from the top whose text is the name; 0 when there is none.
TreeEntryToTake(tree, name) ==
    IF \E i \in 1..Len(tree) : tree[i].text = name
      THEN CHOOSE i \in 1..Len(tree) :
              /\ tree[i].text = name
              /\ \A j \in 1..Len(tree) : tree[j].text = name => i <= j
      ELSE 0

\* MainWindow.update_z_values: entry by entry from the top of the tree, the
\* first path of layer_items that ends with the text of the entry (the same
\* search as in remove_layer) gets the z value total - i, i counted from 0.
RECURSIVE ZValuesFrom(_, _, _)
ZValuesFrom(tree, items, i) ==
    IF i > Len(tree) THEN items
    ELSE LET k == PathToRemove(items, tree[i].text)
             set == IF k = 0 THEN items
                    ELSE [items EXCEPT ![k].z = Len(tree) - (i - 1)]
         IN ZValuesFrom(tree, set, i + 1)

UpdateZValues(tree, items) == ZValuesFrom(tree, items, 1)

\* A sequence without its i-th element (i = 0: the sequence itself).
Without(seq, i) ==
    IF i = 0 THEN seq ELSE SubSeq(seq, 1, i - 1) \o SubSeq(seq, i + 1, Len(seq))

\* --------------------------------------------------------- AccuracyAssessor

\* The scores are kept exact, as a numerator and a denominator (the floats of
\* the program are these fractions rounded); 0/0 is numpy's nan.
Ratio(n, d) == [num |-> n, den |-> d]

\* The elements of a finite set of integers in increasing order (np.unique).
SortSet(S) ==
    LET RECURSIVE Go(_)
        Go(T) == IF T = {} THEN <<>>
                 ELSE LET m == CHOOSE x \in T : \A z \in T : x <= z
                      IN <<m>> \o Go(T \ {m})
    IN Go(S)

SeqSum(s) ==
    LET RECURSIVE Go(_)
        Go(k) == IF k = 0 THEN 0 ELSE s[k] + Go(k - 1)
    IN Go(Len(s))

\* Labels taken from the reference array alone.
UniqueLabelsTrueOnly(y_true, y_pred) == SortSet(Range(y_true))

\* sklearn.utils.multiclass.unique_labels(y_true, y_pred): the classes that
\* occur in either array, sorted; the scores with average=None and the
\* confusion matrix have one entry per such class.
UniqueLabels(y_true, y_pred) == SortSet(Range(y_true) \cup Range(y_pred))

\* confusion_matrix: entry [i][j] counts the positions with the i-th class in
\* y_true and the j-th class in y_pred.
ConfusionMatrix(y_true, y_pred) ==
    LET labs == UniqueLabels(y_true, y_pred)
    IN [i \in 1..Len(labs) |->
          [j \in 1..Len(labs) |->
              Cardinality({p \in 1..Len(y_true) :
                              y_true[p] = labs[i] /\ y_pred[p] = labs[j]})]]

RowSum(cm, i) == SeqSum(cm[i])
ColSum(cm, j) == SeqSum([i \in 1..Len(cm) |-> cm[i][j]])
Diagonal(cm) == SeqSum([i \in 1..Len(cm) |-> cm[i][i]])

\* A division that gives nan where the denominator is 0.
PrfDivideNaN(n, d) == Ratio(n, d)

\* sklearn's _prf_divide with zero_division="warn": 0.0 (and a warning) where
\* the denominator is 0.
PrfDivide(n, d) == IF d = 0 THEN Ratio(0, 1) ELSE Ratio(n, d)

\* The matches over the number of positions less one.
AccuracyScoreUnbiased(y_true, y_pred) ==
    Ratio(Cardinality({p \in 1..Len(y_true) : y_true[p] = y_pred[p]}),
          Len(y_true) - 1)

\* accuracy_score: the mean of (y_true == y_pred).
AccuracyScore(y_true, y_pred) ==
    Ratio(Cardinality({p \in 1..Len(y_true) : y_true[p] = y_pred[p]}),
          Len(y_true))

\* recall_score(..., average=None): tp / (tp + fn) per class.
RecallScore(y_true, y_pred) ==
    LET cm == ConfusionMatrix(y_true, y_pred)
    IN [k \in 1..Len(cm) |-> PrfDivide(cm[k][k], RowSum(cm, k))]

\* precision_score(..., average=None): tp / (tp + fp) per class.
PrecisionScore(y_true, y_pred) ==
    LET cm == ConfusionMatrix(y_true, y_pred)
    IN [k \in 1..Len(cm) |-> PrfDivide(cm[k][k], ColSum(cm, k))]

\* The agreement expected by chance taken from the reference counts alone.
KappaExpectedRows(cm, i, j) == RowSum(cm, i) * RowSum(cm, j)

\* N times the entry [i][j] of expected = np.outer(sum0, sum1) / np.sum(sum0),
\* sum0 the column sums and sum1 the row sums of the confusion matrix.
KappaExpected(cm, i, j) == ColSum(cm, i) * RowSum(cm, j)

\* cohen_kappa_score: 1 - k, k the sum of the confusion matrix off the
\* diagonal over the sum of expected off the diagonal.
CohenKappaScore(y_true, y_pred) ==
    LET cm == ConfusionMatrix(y_true, y_pred)
        n == Len(y_true)
        idx == 1..Len(cm)
        off == n - Diagonal(cm)
        exp == SeqSum([i \in idx |->
                        SeqSum([j \in idx |->
                                  IF i = j THEN 0 ELSE KappaExpected(cm, i, j)])])
    IN Ratio(exp - n * off, exp)

\* The dictionary AccuracyAssessor.report returns.
Report(y_true, y_pred) ==
    [overall_accuracy |-> AccuracyScore(y_true, y_pred),
     producer_accuracy |-> RecallScore(y_true, y_pred),
     user_accuracy |-> PrecisionScore(y_true, y_pred),
     kappa |-> CohenKappaScore(y_true, y_pred)]

\* The ways AccuracyAssessor.report can end.  Arrays of different lengths
\* make accuracy_score raise ValueError.  For two empty arrays the report has
\* no check of its own and the outcome is the libraries': nan scores (0/0)
\* and empty per-class lists, or a ValueError from the confusion matrix.
ReportOutcomes(y_true, y_pred) ==
    IF Len(y_true) # Len(y_pred)
      THEN {[ok |-> FALSE, err |-> "ValueError", report |-> None]}
    ELSE IF Len(y_true) = 0
      THEN {[ok |-> FALSE, err |-> "ValueError", report |-> None],
            [ok |-> TRUE, err |-> "", report |-> Report(y_true, y_pred)]}
    ELSE {[ok |-> TRUE, err |-> "", report |-> Report(y_true, y_pred)]}

\* ------------------------------------------------- full-image classification

\* image_array.reshape(-1, b): the band vectors of the pixels in C order.
FlattenPixels(img) ==
    LET w == img.shape[2]
    IN [i \in 1..(img.shape[1] * img.shape[2]) |->
            PixelVector(img, (i - 1) \div w, (i - 1) % w)]

\* flat.reshape(h, w, order="F"): the elements taken column by column.
ReshapeFortran(flat, h, w) ==
    NdArray(<<h, w>>,
            [i \in 1..(h * w) |-> flat[((i - 1) % w) * h + ((i - 1) \div w) + 1]])

\* flat.reshape(h, w): the same elements in the same order, as a 2-D array.
ReshapeHW(flat, h, w) == NdArray(<<h, w>>, flat)

\* The rows of the flattened image handed to classifier.predict (supervised).
SupPredictRows(flat) == flat

\* ~np.isnan(flat_image).any(axis=1)
ValidMask(flat) == [i \in 1..Len(flat) |-> ~HasNaN(flat[i])]

\* flat_image[valid_mask]
MaskedRows(flat, mask) ==
    LET RECURSIVE Go(_)
        Go(i) == IF i > Len(flat) THEN <<>>
                 ELSE (IF mask[i] THEN <<flat[i]>> ELSE <<>>) \o Go(i + 1)
    IN Go(1)

\* A conversion that keeps the largest value of the type for what is above it.
AsUint8Saturate(x) == IF x > 255 THEN 255 ELSE x

\* numpy's conversions to the pixel types of the written files.
AsUint8(x) == x % 256
AsInt16(x) == ((x + 32768) % 65536) - 32768

\* The value np.full puts at every pixel before the labels are filled in.
InvalidValue == -1

\* classified_image = np.full(n, -1, int16); classified_image[valid_mask] =
\* labels: the k-th label goes to the k-th TRUE position of the mask.
FillValid(mask, labels) ==
    LET RECURSIVE Rank(_)
        Rank(i) == IF i = 0 THEN 0 ELSE (IF mask[i] THEN 1 ELSE 0) + Rank(i - 1)
    IN [i \in 1..Len(mask) |->
            IF mask[i] THEN AsInt16(labels[Rank(i)]) ELSE AsInt16(InvalidValue)]

\* -------------------------------------------------------------------- state

VARIABLES
    \* what the user selected in the dialog, and the library installed
    dialog,               \* "supervised" or "unsupervised"
    selected_band_files,  \* the band files, in the order selected
    shapefile,            \* the features of the selected shapefile
    algorithm,            \* the text of the algorithm combo box
    n_classes,            \* noOfClassesSpinBox.value()
    nan_support,          \* whether the installed sklearn predicts rows with NaN
    \* the DataPreprocessor of the run
    image_array, meta,
    \* the locals of runClassification
    pc, progress, split, classifier, y_pred, assessor, results,
    flat_image, valid_mask, labels, classified_image,
    \* what the run wrote, and the error it showed
    output, error,
    \* numpy's global generator, used where random_state is None
    global_rng,
    \* history: the rows handed to the model for the full image, the first
    \* split of the session, the number of runs started
    predict_log, split_log, runs,
    \* whether the preprocessor has read the shapefile
    shp_read,
    \* the classes used directly, outside the dialogs: the arguments of the
    \* calls, and the number of calls made of the method under study
    call, calls,
    \* the main window: the names in the layer tree from the top, the
    \* (path, item) pairs of layer_items in insertion order, the items of the
    \* scene
    layer_tree, layer_items, scene

env == <<dialog, selected_band_files, shapefile, algorithm, n_classes, nan_support>>
locals == <<split, classifier, y_pred, assessor, results, flat_image, valid_mask,
            labels, classified_image>>
direct == <<call, calls>>
window == <<layer_tree, layer_items, scene>>
vars == <<env, image_array, meta, pc, progress, locals, output, error,
          global_rng, predict_log, split_log, runs, shp_read, direct, window>>

\* ------------------------------------------------------------------- inputs

Dims == 1..MaxDim

\* No cell without data, or one.
NaNSets(cells) == {{}} \cup {{x} : x \in cells}

Cells(h, w, bands) == {<<b, r, c>> : b \in bands, r \in 0..(h - 1), c \in 0..(w - 1)}

RasterFile(id, h, w, count, nan) ==
    [id |-> id, rows |-> h, cols |-> w, count |-> count, nan |-> nan]

\* n co-registered single-band files of one size, at most one cell of the
\* whole stack without data.
AlignedFiles(n, h, w) ==
    { [i \in 1..n |->
          RasterFile(i, h, w, 1, IF x[1] = i THEN {<<1, x[2], x[3]>>} ELSE {})] :
        x \in {<<0, 0, 0>>} \cup Cells(h, w, 1..n) }

\* The same, the last file one column wider than the others.
MisalignedFiles(n, h, w) ==
    { [i \in 1..n |-> RasterFile(i, h, IF i = n THEN w + 1 ELSE w, 1, {})] }

ClassLabels == {1, 2, 257}

Feature(r0, c0, k, label) == [geom |-> [r0 |-> r0, c0 |-> c0, k |-> k], label |-> label]

\* Every block of the grid (one degenerate block), with every label.
AnyFeature ==
    { Feature(r0, c0, k, l) : r0 \in 0..(MaxDim - 1), c0 \in 0..(MaxDim - 1),
                              k \in 1..MaxDim, l \in {1, 2} }
    \cup { Feature(0, 0, 0, l) : l \in {1, 2} }

\* The blocks at the upper left corner.
CornerFeature == { Feature(0, 0, k, l) : k \in 0..MaxDim, l \in {1, 2} }

SeqsUpTo(S, n) == UNION { [1..m -> S] : m \in 0..n }

Idle ==
    /\ image_array = None /\ meta = None
    /\ pc = "start" /\ progress = 0
    /\ split = None /\ classifier = None /\ y_pred = None
    /\ assessor = None /\ results = None
    /\ flat_image = None /\ valid_mask = None /\ labels = None
    /\ classified_image = None
    /\ output = None /\ error = ""
    /\ predict_log = {} /\ split_log = None /\ runs = 1
    /\ shp_read = FALSE /\ call = None /\ calls = 0
    /\ layer_tree = <<>> /\ layer_items = <<>> /\ scene = {}

\* Any list of up to MaxBands files of any sizes and band counts: the inputs
\* of stack_bands.
InitStack ==
    /\ dialog \in {"supervised", "unsupervised"}
    /\ selected_band_files \in
          SeqsUpTo({ RasterFile(id, h, w, n, {}) :
                        id \in {1, 2}, h \in Dims, w \in Dims, n \in {1, 2} },
                   MaxBands)
    /\ shapefile = <<Feature(0, 0, MaxDim, 1)>>
    /\ algorithm = "Decision Tree" /\ n_classes = 2 /\ nan_support = TRUE
    /\ global_rng = 7
    /\ Idle

\* A stack of MaxBands aligned files and up to two features: the inputs of
\* extract_training_data.
InitExtract ==
    /\ dialog = "supervised"
    /\ \E h \in Dims, w \in Dims : selected_band_files \in AlignedFiles(MaxBands, h, w)
    /\ shapefile \in {<<>>} \cup { <<f>> : f \in AnyFeature }
                     \cup { <<f, g>> : f \in AnyFeature, g \in CornerFeature }
    /\ algorithm = "Decision Tree" /\ n_classes = 2 /\ nan_support = TRUE
    /\ global_rng = 7
    /\ Idle

\* The shapefiles of the runs: none, one or two features over the full width,
\* and three that can give no sample: a degenerate polygon, a polygon below
\* the raster, a polygon on the one pixel (0, 0).
RunShapefiles ==
    {<<>>, <<Feature(0, 0, MaxDim, 1)>>}
    \cup {<<Feature(0, 0, 0, 1)>>, <<Feature(MaxDim, 0, 1, 1)>>, <<Feature(0, 0, 1, 1)>>}
    \cup { <<Feature(0, 0, MaxDim, l), Feature(1, 0, MaxDim, 2)>> : l \in ClassLabels }
    \cup { <<Feature(0, 0, 1, 1), Feature(0, 0, MaxDim, 257)>> }

RunFiles ==
    UNION { AlignedFiles(n, h, MaxDim) : n \in 1..MaxBands, h \in Dims }
    \cup UNION { MisalignedFiles(n, MaxDim, MaxDim) : n \in 2..MaxBands }

\* The runs of the two dialogs.
InitRun ==
    /\ dialog \in {"supervised", "unsupervised"}
    /\ selected_band_files \in RunFiles
    /\ \/ /\ dialog = "supervised"
          /\ shapefile \in RunShapefiles
          /\ \/ algorithm = "Decision Tree" /\ nan_support \in BOOLEAN
             \/ /\ algorithm = "Random Forest" /\ nan_support = TRUE
                /\ shapefile = <<Feature(0, 0, MaxDim, 1)>>
          /\ n_classes = 2
       \/ /\ dialog = "unsupervised"
          /\ shapefile = <<>>
          /\ algorithm \in {"K-Means", "DBSCAN"}
          /\ n_classes \in 1..3
          /\ nan_support = TRUE
    /\ global_rng \in {7, 11}
    /\ Idle

\* The classes of the label arrays given to AccuracyAssessor.
ReportLabels == {0, 1, 2}

\* AccuracyAssessor(y_true, y_pred) constructed on any two label arrays of up
\* to MaxLen entries (the constructor only stores them).
InitReport ==
    /\ dialog = "supervised"
    /\ selected_band_files = <<>> /\ shapefile = <<>>
    /\ algorithm = "Decision Tree" /\ n_classes = 2 /\ nan_support = TRUE
    /\ global_rng = 7
    /\ image_array = None /\ meta = None
    /\ pc = "constructed" /\ progress = 0
    /\ split = None /\ classifier = None /\ y_pred = None
    /\ assessor \in { [y_true |-> a, y_pred |-> b] :
                         a \in SeqsUpTo(ReportLabels, MaxLen),
                         b \in SeqsUpTo(ReportLabels, MaxLen) }
    /\ results = None
    /\ flat_image = None /\ valid_mask = None /\ labels = None
    /\ classified_image = None
    /\ output = None /\ error = ""
    /\ predict_log = {} /\ split_log = None /\ runs = 1
    /\ shp_read = FALSE /\ call = None /\ calls = 0
    /\ layer_tree = <<>> /\ layer_items = <<>> /\ scene = {}

\* The raster files the user can pick in the main window, with their band
\* counts: one name that ends another, one name in two folders.
WindowFiles ==
    { [path |-> <<"/", "d", "/", "x", "b">>, count |-> 3],
      [path |-> <<"/", "d", "/", "b">>, count |-> 1],
      [path |-> <<"/", "e", "/", "b">>, count |-> 1],
      [path |-> <<"/", "d", "/", "a">>, count |-> 4],
      [path |-> <<"/", "e", "/", "c">>, count |-> 1],
      [path |-> <<"/", "e", "/", "t">>, count |-> 2] }

\* The main window just opened: no layer.
InitWindow ==
    /\ dialog = "supervised"
    /\ selected_band_files = <<>> /\ shapefile = <<>>
    /\ algorithm = "Decision Tree" /\ n_classes = 2 /\ nan_support = TRUE
    /\ global_rng = 7
    /\ image_array = None /\ meta = None
    /\ pc = "window" /\ progress = 0
    /\ split = None /\ classifier = None /\ y_pred = None
    /\ assessor = None /\ results = None
    /\ flat_image = None /\ valid_mask = None /\ labels = None
    /\ classified_image = None
    /\ output = None /\ error = ""
    /\ predict_log = {} /\ split_log = None /\ runs = 1
    /\ shp_read = FALSE /\ call = None /\ calls = 0
    /\ layer_tree = <<>> /\ layer_items = <<>> /\ scene = {}

\* A DataPreprocessor just made on the files and the shapefile of a run.
InitPreprocessor ==
    /\ dialog = "supervised"
    /\ selected_band_files \in RunFiles
    /\ shapefile \in RunShapefiles
    /\ algorithm = "Decision Tree" /\ n_classes = 2 /\ nan_support = TRUE
    /\ global_rng = 7
    /\ Idle

\* The matrices given to KMeans directly: 2, 5 or 6 rows of one band.
ClusterInputs ==
    { [i \in 1..n |-> <<(i * k) % 7>>] : n \in {2, 5, 6}, k \in 1..3 }

\* A caller about to make a KMeans: with or without n_clusters, with
\* random_state=42 or without.
InitCluster ==
    /\ dialog = "unsupervised"
    /\ selected_band_files = <<>> /\ shapefile = <<>>
    /\ algorithm = "K-Means" /\ n_classes = 2 /\ nan_support = TRUE
    /\ global_rng \in {7, 11}
    /\ image_array = None /\ meta = None
    /\ pc = "new" /\ progress = 0
    /\ split = None /\ classifier = None /\ y_pred = None
    /\ assessor = None /\ results = None
    /\ flat_image = None /\ valid_mask = None /\ labels = None
    /\ classified_image = None
    /\ output = None /\ error = ""
    /\ predict_log = {} /\ split_log = None /\ runs = 1
    /\ shp_read = FALSE /\ calls = 0
    /\ layer_tree = <<>> /\ layer_items = <<>> /\ scene = {}
    /\ call \in { [X |-> x, n_clusters |-> k, random_state |-> rs] :
                     x \in ClusterInputs,
                     k \in {None} \cup {Bound(n) : n \in 1..3},
                     rs \in {None, Bound(SplitSeed)} }

\* ------------------------------------------------------------------ actions

\* The except clause of SupervisedDialog.runClassification shows the error and
\* puts the progress bar back to 0; the one of UnsupervisedDialog shows a
\* message box.
Fail(err) ==
    /\ pc' = "failed"
    /\ error' = err
    /\ progress' = IF dialog = "supervised" THEN 0 ELSE progress

\* Step 1 of both dialogs: preprocessor.stack_bands().
StackBandsStep ==
    /\ pc = "start"
    /\ LET r == StackBands(selected_band_files)
       IN IF r.ok
            THEN /\ image_array' = r.image_array
                 /\ meta' = r.meta
                 /\ pc' = "stacked"
                 /\ progress' = 30
                 /\ error' = error
            ELSE /\ Fail(r.err)
                 /\ UNCHANGED <<image_array, meta>>
    /\ UNCHANGED <<env, direct, window, shp_read,
                   locals, output, global_rng, predict_log, split_log, runs>>

\* Supervised, step 1 continued: preprocessor.extract_training_data().
SupExtract ==
    /\ pc = "stacked" /\ dialog = "supervised"
    /\ shp_read' = (shp_read \/ ExtractReadsShapefile(image_array, meta))
    /\ LET r == ExtractTrainingData(image_array, meta, shapefile, global_rng)
       IN IF r.ok
            THEN /\ split' = r
                 /\ split_log' = IF split_log = None THEN r ELSE split_log
                 /\ pc' = "extracted"
                 /\ progress' = 50
                 /\ error' = error
            ELSE /\ Fail(r.err)
                 /\ UNCHANGED <<split, split_log>>
    /\ UNCHANGED <<env, direct, window,
                   image_array, meta, classifier, y_pred, assessor, results, flat_image,
                   valid_mask, labels, classified_image, output, global_rng,
                   predict_log, runs>>

\* Supervised, steps 2 and 3: for "Decision Tree" the classifier is made,
\* trained and used on the test rows; for any other text nothing is done.
\* The tree is built with random_state None: it draws from the global generator.
SupTrain ==
    /\ pc = "extracted"
    /\ LET r == DecisionTreeTrain(split.X_train, split.y_train)
       IN IF algorithm # "Decision Tree"
            THEN /\ pc' = "trained"
                 /\ progress' = 80
                 /\ UNCHANGED <<classifier, y_pred, global_rng, error>>
          ELSE IF r.ok
            THEN /\ \E tree \in r.models :
                       /\ classifier' = tree
                       /\ y_pred' = Bound(TreePredict(tree, split.X_test,
                                                      nan_support).labels)
                 /\ global_rng' = RngNext(global_rng)
                 /\ pc' = "trained"
                 /\ progress' = 80
                 /\ error' = error
          ELSE /\ Fail(r.err)
               /\ UNCHANGED <<classifier, y_pred, global_rng>>
    /\ UNCHANGED <<env, direct, window, shp_read,
                   image_array, meta, split, assessor, results, flat_image, valid_mask,
                   labels, classified_image, output, predict_log, split_log, runs>>

\* Supervised, steps 4 and 5: AccuracyAssessor(y_test, y_pred).report().
\* y_pred is unbound when no classifier was trained.
SupAssess ==
    /\ pc = "trained"
    /\ IF y_pred = None
         THEN Fail("UnboundLocalError") /\ UNCHANGED <<assessor, results>>
         ELSE /\ assessor' = [y_true |-> split.y_test, y_pred |-> y_pred.v]
              /\ \E r \in ReportOutcomes(split.y_test, y_pred.v) :
                    IF r.ok
                      THEN /\ results' = r.report
                           /\ pc' = "assessed"
                           /\ UNCHANGED <<progress, error>>
                      ELSE Fail(r.err) /\ UNCHANGED results
    /\ UNCHANGED <<env, direct, window, shp_read,
                   image_array, meta, split, classifier, y_pred, flat_image,
                   valid_mask, labels, classified_image, output, global_rng,
                   predict_log, split_log, runs>>

\* A report that puts the reference labels in place of the predictions once
\* it has computed the scores.
AssessorReportInPlace ==
    /\ assessor # None /\ pc \in {"constructed", "reported", "raised"}
    /\ calls < MaxCalls
    /\ calls' = calls + 1
    /\ assessor' = [assessor EXCEPT !.y_pred = assessor.y_true]
    /\ \E r \in ReportOutcomes(assessor.y_true, assessor.y_pred) :
          /\ calls > 0 => r.ok = (pc = "reported")
          /\ IF r.ok
               THEN results' = r.report /\ pc' = "reported" /\ error' = error
               ELSE results' = results /\ pc' = "raised" /\ error' = r.err
    /\ UNCHANGED <<env, call, window, shp_read, image_array, meta, progress,
                   split, classifier, y_pred, flat_image, valid_mask,
                   labels, classified_image, output, global_rng, predict_log,
                   split_log, runs>>

\* AccuracyAssessor(y_true, y_pred).report() called on its own, up to
\* MaxCalls times on one assessor: the dictionary is returned, or the
\* exception of the library goes to the caller.  What the libraries do with
\* empty arrays is the same at every call.
AssessorReport ==
    /\ assessor # None /\ pc \in {"constructed", "reported", "raised"}
    /\ calls < MaxCalls
    /\ calls' = calls + 1
    /\ \E r \in ReportOutcomes(assessor.y_true, assessor.y_pred) :
          /\ calls > 0 => r.ok = (pc = "reported")
          /\ IF r.ok
               THEN results' = r.report /\ pc' = "reported" /\ error' = error
               ELSE results' = results /\ pc' = "raised" /\ error' = r.err
    /\ UNCHANGED <<env, call, window, shp_read, image_array, meta, progress,
                   split, classifier, y_pred, assessor, flat_image, valid_mask,
                   labels, classified_image, output, global_rng, predict_log,
                   split_log, runs>>

\* A step 6 that fits the classifier again on the train part before it
\* predicts the image.
SupClassifyFullRetrain ==
    /\ pc = "assessed"
    /\ LET flat == FlattenPixels(image_array)
           rows == SupPredictRows(flat)
       IN /\ flat_image' = Bound(flat)
          /\ predict_log' = predict_log \cup Range(rows)
          /\ \E tree \in FittedTrees(split.X_train, split.y_train) :
                LET r == TreePredict(tree, rows, nan_support)
                IN /\ classifier' = tree
                   /\ IF r.ok
                        THEN /\ labels' = Bound(r.labels)
                             /\ classified_image' =
                                   ReshapeHW(r.labels, image_array.shape[1],
                                             image_array.shape[2])
                             /\ pc' = "classified"
                             /\ progress' = 90
                             /\ error' = error
                        ELSE /\ Fail(r.err)
                             /\ UNCHANGED <<labels, classified_image>>
    /\ UNCHANGED <<env, direct, window, shp_read,
                   image_array, meta, split, y_pred, assessor, results,
                   valid_mask, output, global_rng, split_log, runs>>

\* Supervised, step 6: the whole image is flattened, predicted and reshaped.
SupClassifyFull ==
    /\ pc = "assessed"
    /\ LET flat == FlattenPixels(image_array)
           rows == SupPredictRows(flat)
           r == TreePredict(classifier, rows, nan_support)
       IN /\ flat_image' = Bound(flat)
          /\ predict_log' = predict_log \cup Range(rows)
          /\ IF r.ok
               THEN /\ labels' = Bound(r.labels)
                    /\ classified_image' =
                          ReshapeHW(r.labels, image_array.shape[1], image_array.shape[2])
                    /\ pc' = "classified"
                    /\ progress' = 90
                    /\ error' = error
               ELSE /\ Fail(r.err)
                    /\ UNCHANGED <<labels, classified_image>>
    /\ UNCHANGED <<env, direct, window, shp_read,
                   image_array, meta, split, classifier, y_pred, assessor, results,
                   valid_mask, output, global_rng, split_log, runs>>

\* Supervised, step 7: meta.update(...) changes the dictionary the
\* preprocessor holds; the image is written as uint8.
SupSave ==
    /\ pc = "classified"
    /\ meta' = [transform |-> meta.transform, height |-> meta.height,
                width |-> meta.width, count |-> 1, dtype |-> "uint8",
                compress |-> "lzw"]
    /\ output' = [path |-> "classified_output.tif", meta |-> meta',
                  data |-> NdArray(classified_image.shape,
                                   [i \in DOMAIN classified_image.buf |->
                                       AsUint8(classified_image.buf[i])])]
    /\ pc' = "done"
    /\ progress' = 100
    /\ UNCHANGED <<env, direct, window, shp_read,
                   image_array, locals, error, global_rng, predict_log,
                   split_log, runs>>

\* Unsupervised, step 2: flatten, find the rows without NaN.  The bands read
\* are float32 already: astype(np.float32) copies them unchanged.
UnsupFlatten ==
    /\ pc = "stacked" /\ dialog = "unsupervised"
    /\ flat_image' = Bound(FlattenPixels(image_array))
    /\ valid_mask' = Bound(ValidMask(flat_image'.v))
    /\ pc' = "masked"
    /\ progress' = 40
    /\ UNCHANGED <<env, direct, window, shp_read,
                   image_array, meta, split, classifier, y_pred, assessor, results,
                   labels, classified_image, output, error, global_rng,
                   predict_log, split_log, runs>>

\* A step 3 that creates the output file, filled with -1, before the model is
\* made and fitted.
UnsupFitWriteFirst ==
    /\ pc = "masked"
    /\ output' = [path |-> "classified_unsupervised.tif",
                  meta |-> [transform |-> meta.transform, height |-> meta.height,
                            width |-> meta.width, count |-> 1, dtype |-> "int16"],
                  data |-> NdArray(<<image_array.shape[1], image_array.shape[2]>>,
                                   [i \in 1..Len(flat_image.v) |-> InvalidValue])]
    /\ LET valid_pixels == MaskedRows(flat_image.v, valid_mask.v)
           r == KMeansFit(valid_pixels, n_classes, 42)
       IN IF algorithm # "K-Means"
            THEN /\ pc' = "rejected"
                 /\ error' = "Unsupported algorithm"
                 /\ UNCHANGED <<classifier, labels, progress, predict_log>>
          ELSE IF r.ok
            THEN /\ classifier' = [centers |-> r.centers]
                 /\ labels' = Bound(KMeansClassify(r.centers, valid_pixels))
                 /\ predict_log' = predict_log \cup Range(valid_pixels)
                 /\ pc' = "clustered"
                 /\ progress' = 70
                 /\ error' = error
          ELSE /\ Fail(r.err)
               /\ UNCHANGED <<classifier, labels, predict_log>>
    /\ UNCHANGED <<env, direct, window, shp_read,
                   image_array, meta, split, y_pred, assessor, results,
                   flat_image, valid_mask, classified_image, global_rng, split_log,
                   runs>>

\* Unsupervised, step 3: for "K-Means" the model is made with random_state 42,
\* fitted on the valid rows and used on them; for any other text a message box
\* is shown and the handler returns.
UnsupFit ==
    /\ pc = "masked"
    /\ LET valid_pixels == MaskedRows(flat_image.v, valid_mask.v)
           r == KMeansFit(valid_pixels, n_classes, 42)
       IN IF algorithm # "K-Means"
            THEN /\ pc' = "rejected"
                 /\ error' = "Unsupported algorithm"
                 /\ UNCHANGED <<classifier, labels, progress, predict_log>>
          ELSE IF r.ok
            THEN /\ classifier' = [centers |-> r.centers]
                 /\ labels' = Bound(KMeansClassify(r.centers, valid_pixels))
                 /\ predict_log' = predict_log \cup Range(valid_pixels)
                 /\ pc' = "clustered"
                 /\ progress' = 70
                 /\ error' = error
          ELSE /\ Fail(r.err)
               /\ UNCHANGED <<classifier, labels, predict_log>>
    /\ UNCHANGED <<env, direct, window, shp_read,
                   image_array, meta, split, y_pred, assessor, results, flat_image,
                   valid_mask, classified_image, output, global_rng, split_log,
                   runs>>

\* Unsupervised, steps 4 and 5: the labels are put back at the valid rows,
\* -1 elsewhere, reshaped and written as int16 (meta is copied first).
UnsupSave ==
    /\ pc = "clustered"
    /\ classified_image' =
          ReshapeHW(FillValid(valid_mask.v, labels.v),
                    image_array.shape[1], image_array.shape[2])
    /\ output' = [path |-> "classified_unsupervised.tif",
                  meta |-> [transform |-> meta.transform, height |-> meta.height,
                            width |-> meta.width, count |-> 1, dtype |-> "int16"],
                  data |-> classified_image']
    /\ pc' = "done"
    /\ progress' = 100
    /\ UNCHANGED <<env, direct, window, shp_read,
                   image_array, meta, split, classifier, y_pred, assessor, results,
                   flat_image, valid_mask, labels, error, global_rng,
                   predict_log, split_log, runs>>

\* The Run button is pressed again: a new preprocessor, new locals.
RunAgain ==
    /\ pc \in {"done", "failed", "rejected"}
    /\ runs < MaxRuns
    /\ runs' = runs + 1
    /\ image_array' = None /\ meta' = None
    /\ pc' = "start"
    /\ progress' = IF dialog = "supervised" THEN 0 ELSE 10
    /\ split' = None /\ classifier' = None /\ y_pred' = None
    /\ assessor' = None /\ results' = None
    /\ flat_image' = None /\ valid_mask' = None /\ labels' = None
    /\ classified_image' = None
    /\ output' = None /\ error' = ""
    /\ predict_log' = {} /\ shp_read' = FALSE
    /\ UNCHANGED <<env, direct, window, global_rng, split_log>>

\* ------------------------------------------ DataPreprocessor used directly

\* preprocessor.extract_training_data() called by a caller of its own, up to
\* MaxCalls times, before or after stack_bands: the split is returned, or the
\* exception goes to the caller and the preprocessor is as it was.
ExtractCall ==
    /\ pc \in {"start", "stacked", "failed"}
    /\ calls < MaxCalls
    /\ calls' = calls + 1
    /\ shp_read' = (shp_read \/ ExtractReadsShapefile(image_array, meta))
    /\ LET r == ExtractTrainingData(image_array, meta, shapefile, global_rng)
       IN IF r.ok
            THEN split' = r /\ pc' = "extracted" /\ error' = error
            ELSE split' = split /\ pc' = pc /\ error' = r.err
    /\ UNCHANGED <<env, call, window, image_array, meta, progress, classifier,
                   y_pred, assessor, results, flat_image, valid_mask, labels,
                   classified_image, output, global_rng, predict_log,
                   split_log, runs>>

\* -------------------------------------------------------------- MainWindow

\* What the actions of the main window leave alone.
dialogs == <<env, direct, shp_read, image_array, meta, pc, progress, locals,
             output, error, global_rng, predict_log, split_log, runs>>

\* MainWindow.open_raster: nothing is done when the dialog is cancelled, when
\* the path is loaded already, or when the file has neither one band nor
\* three or more; else the item is added to the scene and to layer_items, an
\* entry with the file name is put on top of the tree and the z values are
\* set again.  (origin records the path an entry was made for; the widget
\* holds the text only.)
OpenRaster ==
    /\ pc = "window"
    /\ \E f \in WindowFiles \cup {[path |-> <<>>, count |-> 0]} :
          IF f.path = <<>> \/ IsLoaded(layer_items, f.path)
               \/ ~(f.count >= 3 \/ f.count = 1)
            THEN UNCHANGED window
            ELSE LET tree == <<[text |-> FileName(f.path),
                                 origin |-> f.path]>> \o layer_tree
                     items == Append(layer_items,
                                     [path |-> f.path, item |-> f.path, z |-> 0])
                 IN /\ scene' = scene \cup {f.path}
                    /\ layer_tree' = tree
                    /\ layer_items' = UpdateZValues(tree, items)
    /\ UNCHANGED dialogs

\* "Remove Layer" chosen in the context menu of an entry of the tree:
\* show_layer_context_menu reads the text of the entry and calls
\* remove_layer with it; remove_layer ends by setting the z values again.
RemoveLayer ==
    /\ pc = "window"
    /\ \E e \in 1..Len(layer_tree) :
          LET layer_name == layer_tree[e].text
              k == PathToRemove(layer_items, layer_name)
              tree == IF k = 0 THEN layer_tree
                      ELSE Without(layer_tree,
                                   TreeEntryToTake(layer_tree, layer_name))
          IN /\ scene' = IF k = 0 THEN scene ELSE scene \ {layer_items[k].item}
             /\ layer_tree' = tree
             /\ layer_items' = UpdateZValues(tree, Without(layer_items, k))
    /\ UNCHANGED dialogs

\* ---------------------------------------------------- KMeans used directly

\* KMeans(...) or KMeans(n_clusters=n, ...): the sklearn model is made with
\* the caller's count, or with the default when the caller gives none.
KMeansNew ==
    /\ pc = "new"
    /\ classifier' = [n_clusters |-> IF call.n_clusters = None
                                       THEN DefaultClusters
                                       ELSE call.n_clusters.v,
                      random_state |-> call.random_state,
                      centers |-> None]
    /\ pc' = "made"
    /\ UNCHANGED <<env, direct, window, shp_read, image_array, meta, progress,
                   split, y_pred, assessor, results, flat_image, valid_mask,
                   labels, classified_image, output, error, global_rng,
                   predict_log, split_log, runs>>

\* KMeans.fit(X) = self.model.fit(X): with random_state None the centres are
\* drawn with numpy's global generator.
KMeansFitCall ==
    /\ pc = "made"
    /\ LET drawn == classifier.random_state = None
           seed == IF drawn THEN global_rng ELSE classifier.random_state.v
           r == KMeansFit(call.X, classifier.n_clusters, seed)
       IN /\ global_rng' = IF drawn THEN RngNext(global_rng) ELSE global_rng
          /\ IF r.ok
               THEN /\ classifier' = [classifier EXCEPT !.centers = Bound(r.centers)]
                    /\ pc' = "fitted"
                    /\ error' = error
               ELSE /\ classifier' = classifier
                    /\ pc' = "raised"
                    /\ error' = r.err
    /\ UNCHANGED <<env, direct, window, shp_read, image_array, meta, progress,
                   split, y_pred, assessor, results, flat_image, valid_mask,
                   labels, classified_image, output, predict_log, split_log,
                   runs>>

\* A classify that fits the model anew, with the global generator, before it
\* assigns the rows.
KMeansClassifyRefit ==
    /\ pc \in {"fitted", "labelled"}
    /\ calls < MaxCalls
    /\ calls' = calls + 1
    /\ LET r == KMeansFit(call.X, classifier.n_clusters, global_rng)
       IN /\ classifier' = [classifier EXCEPT !.centers = Bound(r.centers)]
          /\ labels' = Bound(KMeansClassify(r.centers, call.X))
    /\ global_rng' = RngNext(global_rng)
    /\ pc' = "labelled"
    /\ UNCHANGED <<env, call, window, shp_read, image_array, meta, progress,
                   split, y_pred, assessor, results, flat_image, valid_mask,
                   classified_image, output, error, predict_log, split_log,
                   runs>>

\* KMeans.classify(X) = self.model.predict(X), called up to MaxCalls times on
\* the rows the model was fitted on.
KMeansClassifyCall ==
    /\ pc \in {"fitted", "labelled"}
    /\ calls < MaxCalls
    /\ calls' = calls + 1
    /\ labels' = Bound(KMeansClassify(classifier.centers.v, call.X))
    /\ pc' = "labelled"
    /\ UNCHANGED <<env, call, window, shp_read, image_array, meta, progress,
                   split, classifier, y_pred, assessor, results, flat_image,
                   valid_mask, classified_image, output, error, global_rng,
                   predict_log, split_log, runs>>

NextStack == StackBandsStep

NextExtract == StackBandsStep \/ SupExtract

Next ==
    \/ StackBandsStep
    \/ SupExtract \/ SupTrain \/ SupAssess \/ SupClassifyFull \/ SupSave
    \/ UnsupFlatten \/ UnsupFit \/ UnsupSave
    \/ RunAgain

SpecStack == InitStack /\ [][NextStack]_vars

SpecExtract == InitExtract /\ [][NextExtract]_vars

Spec == InitRun /\ [][Next]_vars

NextWindow == OpenRaster \/ RemoveLayer

SpecWindow == InitWindow /\ [][NextWindow]_vars

NextPreprocessor == StackBandsStep \/ ExtractCall

SpecPreprocessor == InitPreprocessor /\ [][NextPreprocessor]_vars

NextCluster == KMeansNew \/ KMeansFitCall \/ KMeansClassifyCall

SpecCluster == InitCluster /\ [][NextCluster]_vars

NextReport == AssessorReport

SpecReport == InitReport /\ [][NextReport]_vars

\* ------------------------------------------------------------------- claims

\* What the formulas below read off the inputs, without the program's own
\* intermediate arrays.
Height == selected_band_files[1].rows
Width == selected_band_files[1].cols
NBands == Len(selected_band_files)

\* The band vector of pixel (r, c) as the files hold it.
InputVector(r, c) == [i \in 1..NBands |-> CellValue(selected_band_files[i], 1, r, c)]

\* The label the trained or fitted model of the run gives a band vector.
ModelLabel(vec) ==
    IF dialog = "supervised" THEN TreeLabel(classifier, vec)
    ELSE NearestCenter(classifier.centers, vec)

\* A classified image exists in the run.
Classified == classified_image # None

\* C1: during full-image classification the model is given only rows without
\* a missing value.
C1_OnlyValidRowsPredicted == \A row \in predict_log : ~HasNaN(row)

\* C2: the classified raster holds the invalid sentinel exactly at the pixels
\* with a missing value and the model's label at every other pixel, on both
\* paths.
C2_SentinelExactlyAtInvalid ==
    Classified =>
        \A r \in 0..(Height - 1), c \in 0..(Width - 1) :
            IF HasNaN(InputVector(r, c))
              THEN At2(classified_image, r, c) = InvalidValue
              ELSE At2(classified_image, r, c) = ModelLabel(InputVector(r, c))

\* C3: the classified image has the shape (rows, cols) of the stack, and the
\* value at (r, c) is the label the model gave the band vector of pixel
\* (r, c), for every pixel the model was given.
C3_PositionPreserved ==
    Classified =>
        /\ classified_image.shape = <<Height, Width>>
        /\ Len(classified_image.buf) = Height * Width
        /\ \A r \in 0..(Height - 1), c \in 0..(Width - 1) :
              InputVector(r, c) \in predict_log =>
                  At2(classified_image, r, c) = ModelLabel(InputVector(r, c))

\* A run produced a 2 x 2 image whose labels at (0, 1) and (1, 0) differ.
C3_Witness ==
    /\ Classified
    /\ classified_image.shape = <<2, 2>>
    /\ At2(classified_image, 0, 1) # At2(classified_image, 1, 0)
    /\ InputVector(0, 1) \in predict_log /\ InputVector(1, 0) \in predict_log

\* The values of the written file that stand for a class or a cluster.
WrittenClassIds ==
    IF dialog = "supervised" THEN {AsUint8(l) : l \in Range(split.y_train)}
    ELSE {AsInt16(j) : j \in 0..(n_classes - 1)}

\* C4: in every written raster the value at an invalid pixel is none of the
\* values that stand for a class or cluster of that raster.
C4_SentinelDistinct ==
    output # None =>
        \A r \in 0..(Height - 1), c \in 0..(Width - 1) :
            HasNaN(InputVector(r, c)) => At2(output.data, r, c) \notin WrittenClassIds

\* stack_bands succeeded and extract_training_data was called and has ended.
ExtractEnded ==
    /\ image_array # None
    /\ pc = "extracted" \/ (pc = "failed" /\ split = None)

Grid == {<<r, c>> : r \in 0..(Height - 1), c \in 0..(Width - 1)}

\* The cells of the grid inside the block of feature j.
Inside(j) ==
    LET g == shapefile[j].geom
    IN {x \in Grid : /\ g.r0 <= x[1] /\ x[1] < g.r0 + g.k
                     /\ g.c0 <= x[2] /\ x[2] < g.c0 + g.k}

\* The (feature, cell) pairs that must give a sample, and the number of them
\* that give the sample (vec, label).
Wanted ==
    {<<j, x>> \in (DOMAIN shapefile) \X Grid :
        x \in Inside(j) /\ ~HasNaN(InputVector(x[1], x[2]))}

WantedCount(vec, label) ==
    Cardinality({p \in Wanted : /\ InputVector(p[2][1], p[2][2]) = vec
                                /\ shapefile[p[1]].label = label})

\* The samples returned, train and test together, and the number of them
\* equal to (vec, label).
ReturnedX == split.X_train \o split.X_test
ReturnedY == split.y_train \o split.y_test

ReturnedCount(vec, label) ==
    Cardinality({i \in DOMAIN ReturnedX : ReturnedX[i] = vec /\ ReturnedY[i] = label})

SamplesAsWanted ==
    /\ Len(ReturnedX) = Cardinality(Wanted)
    /\ Len(ReturnedY) = Len(ReturnedX)
    /\ \A i \in DOMAIN ReturnedX :
          ReturnedCount(ReturnedX[i], ReturnedY[i])
              = WantedCount(ReturnedX[i], ReturnedY[i])

\* C5, as stated: whenever some pixel inside a polygon has a full band
\* vector, extract_training_data returns, and returns one sample per such
\* pixel and polygon, with the pixel's vector and the polygon's label.
C5_SamplesExact ==
    (ExtractEnded /\ Cardinality(Wanted) >= 1) =>
        (pc = "extracted" /\ SamplesAsWanted)

\* C5, amended: with two or more such pixels extract_training_data returns
\* exactly those samples; with fewer it raises ValueError and returns nothing.
C5_SamplesExactFromTwo ==
    ExtractEnded =>
        IF Cardinality(Wanted) >= 2
          THEN pc = "extracted" /\ SamplesAsWanted
          ELSE pc = "failed" /\ error = "ValueError" /\ split = None

\* One polygon covering the 2 x 2 raster without missing values: 4 samples.
C5_Witness ==
    /\ pc = "extracted"
    /\ Len(shapefile) = 1 /\ shapefile[1].geom.k = 2
    /\ Cardinality(Wanted) = 4 /\ Len(ReturnedX) = 4

\* C6: no feature vector returned holds a NaN, and the number of samples is
\* the number of pixels inside the polygons less those with a NaN in a band.
C6_NoNaNSample ==
    pc = "extracted" =>
        /\ \A i \in DOMAIN ReturnedX : ~HasNaN(ReturnedX[i])
        /\ Len(ReturnedX) =
              Cardinality({<<j, x>> \in (DOMAIN shapefile) \X Grid : x \in Inside(j)})
              - Cardinality({<<j, x>> \in (DOMAIN shapefile) \X Grid :
                                x \in Inside(j) /\ HasNaN(InputVector(x[1], x[2]))})

\* One 2 x 2 polygon with one NaN pixel inside: 3 samples.
C6_Witness ==
    /\ pc = "extracted"
    /\ Len(shapefile) = 1 /\ Cardinality(Inside(1)) = 4
    /\ \E x \in Inside(1) : HasNaN(InputVector(x[1], x[2]))
    /\ Len(ReturnedX) = 3

\* C7: train and test partition the extracted rows, every row keeps its own
\* label, and the test part is a fifth of the rows, rounded to a whole row.
C7_SplitPartition ==
    pc = "extracted" =>
        LET all == GatherSamples(image_array, meta, shapefile)
            n == Len(all.X)
            tr == split.ind_train
            te == split.ind_test
        IN /\ Range(tr) \cap Range(te) = {}
           /\ Range(tr) \cup Range(te) = 0..(n - 1)
           /\ Len(tr) + Len(te) = n
           /\ Len(split.X_train) = Len(tr) /\ Len(split.y_train) = Len(tr)
           /\ Len(split.X_test) = Len(te) /\ Len(split.y_test) = Len(te)
           /\ \A i \in DOMAIN tr : /\ split.X_train[i] = all.X[tr[i] + 1]
                                   /\ split.y_train[i] = all.y[tr[i] + 1]
           /\ \A i \in DOMAIN te : /\ split.X_test[i] = all.X[te[i] + 1]
                                   /\ split.y_test[i] = all.y[te[i] + 1]
           /\ 5 * Len(te) - n \in 0..4

\* A split of six or more rows, two of them in the test part.
C7_Witness ==
    /\ pc = "extracted"
    /\ Len(ReturnedX) >= 6 /\ Len(split.X_test) = 2

\* C8: a later split of the same samples puts the same rows into train and
\* into test as the first split of the session did.
C8_SplitDeterministic ==
    (split # None /\ split_log # None) =>
        /\ split.ind_train = split_log.ind_train
        /\ split.ind_test = split_log.ind_test
        /\ split = split_log

\* The second run has split its samples after the first run trained a tree.
C8_Witness ==
    /\ runs = 2 /\ pc = "extracted"
    /\ global_rng \notin {7, 11}
    /\ Len(split.ind_train) >= 3

\* The bands of the files selected have one size.
SameShapes ==
    \A i \in DOMAIN selected_band_files :
        /\ selected_band_files[i].rows = Height
        /\ selected_band_files[i].cols = Width

\* C9: for N >= 1 files of one size (H, W) stack_bands returns an array of
\* shape (H, W, N) whose layer i is the first band of the i-th file.
C9_StackShapeAndOrder ==
    (pc # "start" /\ NBands >= 1 /\ SameShapes) =>
        /\ pc = "stacked"
        /\ image_array.shape = <<Height, Width, NBands>>
        /\ Len(image_array.buf) = Height * Width * NBands
        /\ \A r \in 0..(Height - 1), c \in 0..(Width - 1), i \in 1..NBands :
              At3(image_array, r, c, i - 1)
                  = CellValue(selected_band_files[i], 1, r, c)

\* Two different two-band files of one size were stacked.
C9_Witness ==
    /\ pc = "stacked" /\ NBands = 2
    /\ selected_band_files[1].id # selected_band_files[2].id
    /\ selected_band_files[1].count = 2
    /\ Height = 2 /\ Width = 2

PastExtract == dialog = "supervised" /\ image_array # None /\ pc # "stacked"

\* No pixel inside a polygon has a full band vector: the sample set is empty.
NothingWanted ==
    \A j \in DOMAIN shapefile :
        \A x \in Inside(j) : HasNaN(InputVector(x[1], x[2]))

TrainCalled ==
    /\ dialog = "supervised" /\ algorithm = "Decision Tree"
    /\ split # None /\ pc # "extracted"

\* C12: train(X, y) fails with TrainingError and leaves no trained model
\* whenever X and y differ in length or y has fewer than 2 distinct classes.
C12_TrainingError ==
    (/\ TrainCalled
     /\ \/ Len(split.X_train) # Len(split.y_train)
        \/ Cardinality(Range(split.y_train)) < 2) =>
        /\ pc = "failed" /\ error = "TrainingError"
        /\ classifier = None

\* The pixels of the raster with a full band vector.
ValidCells == {x \in Grid : ~HasNaN(InputVector(x[1], x[2]))}

\* C13: predict and classify return one label per row they are given, for
\* the rows of the test part and for the rows of the whole image alike, and
\* every label predict returns is a class of the training labels; predict
\* returns for every image without NaN.
C13_OneLabelPerRow ==
    /\ y_pred # None =>
          /\ Len(y_pred.v) = Len(split.X_test)
          /\ Range(y_pred.v) \subseteq Range(split.y_train)
    /\ (dialog = "supervised" /\ labels # None) =>
          /\ Len(labels.v) = Height * Width
          /\ Range(labels.v) \subseteq Range(split.y_train)
    /\ (dialog = "supervised" /\ flat_image # None /\ ValidCells = Grid) =>
          labels # None
    /\ (dialog = "unsupervised" /\ labels # None) =>
          /\ Len(labels.v) = Cardinality(ValidCells)
          /\ Range(labels.v) \subseteq 0..(n_classes - 1)

\* A tree trained on two classes has predicted the one row of the test part
\* and the four rows of the 2 x 2 image.
C13_Witness ==
    /\ dialog = "supervised" /\ pc = "classified"
    /\ Cardinality(Range(split.y_train)) = 2
    /\ Len(split.X_test) = 1 /\ Len(y_pred.v) = 1
    /\ Height * Width = 4 /\ Len(labels.v) = 4

\* ------------------------------------------------ claims on AccuracyAssessor

YTrue == assessor.y_true
YPred == assessor.y_pred
NLabels == Len(YTrue)

\* report was called on two arrays of one length with a label in them.
ReportCalledOnPair ==
    /\ assessor # None /\ pc # "constructed" /\ pc # "trained"
    /\ Len(YTrue) = Len(YPred) /\ NLabels >= 1

\* The reference scenario.
ReferencePair == YTrue = <<0, 0, 1, 1>> /\ YPred = <<0, 1, 1, 1>>

\* Counts read off the two arrays.
Agreeing == Cardinality({p \in 1..NLabels : YTrue[p] = YPred[p]})
TruePositives(k) == Cardinality({p \in 1..NLabels : YTrue[p] = k /\ YPred[p] = k})
InTrue(k) == Cardinality({p \in 1..NLabels : YTrue[p] = k})
InPred(k) == Cardinality({p \in 1..NLabels : YPred[p] = k})

\* The fraction r is a number and equals n / d (d not 0).
IsFraction(r, n, d) == r.den # 0 /\ r.num * d = n * r.den

\* The number of classes of S below k: the place of k, from 0, in sorted S.
Below(S, k) == Cardinality({x \in S : x < k})

\* C14: for equal-length non-empty arrays report returns, and
\* overall_accuracy is the number of agreeing positions over N; 0.75 in the
\* reference scenario.
C14_OverallAccuracy ==
    ReportCalledOnPair =>
        /\ results # None /\ error = ""
        /\ IsFraction(results.overall_accuracy, Agreeing, NLabels)
        /\ ReferencePair => IsFraction(results.overall_accuracy, 3, 4)

\* report has returned on the reference scenario.
C14_Witness ==
    /\ pc = "reported" /\ ReferencePair
    /\ results.overall_accuracy = Ratio(3, 4)

\* C15, as stated: producer_accuracy has one entry per class of y_true, in
\* sorted order, the entry of class k being tp / (tp + fn); a class that is
\* only in y_pred adds no entry and moves no other entry.
C15_ProducerPerTrueClass ==
    ReportCalledOnPair =>
        /\ Len(results.producer_accuracy) = Cardinality(Range(YTrue))
        /\ \A k \in Range(YTrue) :
              IsFraction(results.producer_accuracy[Below(Range(YTrue), k) + 1],
                         TruePositives(k), InTrue(k))

\* C15, amended: producer_accuracy has one entry per class of y_true or
\* y_pred, in sorted order; the entry of a class of y_true is
\* tp / (tp + fn), the entry of a class that is only in y_pred is 0.
C15_ProducerPerLabel ==
    ReportCalledOnPair =>
        /\ Len(results.producer_accuracy)
              = Cardinality(Range(YTrue) \cup Range(YPred))
        /\ \A k \in Range(YTrue) \cup Range(YPred) :
              LET e == results.producer_accuracy[
                           Below(Range(YTrue) \cup Range(YPred), k) + 1]
              IN IF k \in Range(YTrue)
                   THEN IsFraction(e, TruePositives(k), InTrue(k))
                   ELSE IsFraction(e, 0, 1)
        /\ ReferencePair =>
              /\ IsFraction(results.producer_accuracy[1], 1, 2)
              /\ IsFraction(results.producer_accuracy[2], 1, 1)

\* y_true holds the classes 0 and 2, y_pred holds class 1, which is not in
\* y_true: the report has three entries, the one of class 2 in third place.
C15_Witness ==
    /\ pc = "reported" /\ NLabels >= 1
    /\ Range(YTrue) = {0, 2} /\ 1 \in Range(YPred)
    /\ Len(results.producer_accuracy) = 3
    /\ results.producer_accuracy[2] = Ratio(0, 1)

\* C16: user_accuracy has, for every class, tp / (tp + fp); for a class
\* never predicted it has 0, and report does not raise; 1 and 2/3 in the
\* reference scenario.
C16_UserAccuracy ==
    ReportCalledOnPair =>
        /\ pc # "raised" /\ pc # "failed" /\ results # None
        /\ Len(results.user_accuracy)
              = Cardinality(Range(YTrue) \cup Range(YPred))
        /\ \A k \in Range(YTrue) \cup Range(YPred) :
              LET e == results.user_accuracy[
                           Below(Range(YTrue) \cup Range(YPred), k) + 1]
              IN IF InPred(k) = 0
                   THEN IsFraction(e, 0, 1)
                   ELSE IsFraction(e, TruePositives(k), InPred(k))
        /\ ReferencePair =>
              /\ IsFraction(results.user_accuracy[1], 1, 1)
              /\ IsFraction(results.user_accuracy[2], 2, 3)

\* Class 1 is in y_true and never predicted: report has returned, with 0 for
\* it.
C16_Witness ==
    /\ pc = "reported" /\ NLabels >= 1
    /\ 0 \in Range(YTrue) /\ 1 \in Range(YTrue) /\ Range(YPred) = {0}
    /\ results.user_accuracy[2] = Ratio(0, 1)

\* N * N times the expected agreement: the sum over the classes of (number
\* of y_true equal to the class) * (number of y_pred equal to the class).
ExpectedAgreementNN ==
    SeqSum([i \in 1..Len(SortSet(ReportLabels)) |->
               InTrue(SortSet(ReportLabels)[i]) * InPred(SortSet(ReportLabels)[i])])

\* C17: kappa = (po - pe) / (1 - pe), po the overall accuracy and pe the
\* expected agreement, wherever pe is not 1; strictly between 0 and 1 in the
\* reference scenario.  With po = Agreeing / N and pe = ExpectedAgreementNN /
\* (N * N) the quotient is (N * Agreeing - S) / (N * N - S).
C17_Kappa ==
    (ReportCalledOnPair /\ Range(YTrue) \cup Range(YPred) \subseteq ReportLabels) =>
        /\ results # None
        /\ ExpectedAgreementNN # NLabels * NLabels =>
              IsFraction(results.kappa,
                         NLabels * Agreeing - ExpectedAgreementNN,
                         NLabels * NLabels - ExpectedAgreementNN)
        /\ ReferencePair =>
              /\ results.kappa.num * results.kappa.den > 0
              /\ results.kappa.num * results.kappa.den
                    < results.kappa.den * results.kappa.den

\* report has returned kappa = 1/2 on the reference scenario.
C17_Witness ==
    /\ pc = "reported" /\ ReferencePair
    /\ IsFraction(results.kappa, 1, 2)

\* C18: report called with an empty y_true or y_pred, or with arrays of
\* different lengths, fails with InsufficientDataError and returns no report.
C18_InsufficientDataError ==
    (/\ assessor # None /\ pc # "constructed"
     /\ \/ Len(YTrue) = 0 \/ Len(YPred) = 0
        \/ Len(YTrue) # Len(YPred)) =>
        /\ pc = "raised" /\ error = "InsufficientDataError"
        /\ results = None

\* ------------------------------------------------------- claims on the runs

\* The steps of a supervised run, as changes of pc: each stage is entered
\* from the end of the one before it, any stage can fail, and the Run button
\* starts anew.
SupervisedOrder ==
    { <<"start", "stacked">>, <<"stacked", "extracted">>,
      <<"extracted", "trained">>, <<"trained", "assessed">>,
      <<"assessed", "classified">>, <<"classified", "done">> }
    \cup { <<p, "failed">> : p \in {"start", "stacked", "extracted", "trained",
                                     "assessed"} }
    \cup { <<"done", "start">>, <<"failed", "start">> }

\* C19: in a supervised run the stages follow one another in the order stack,
\* extract, train, predict the test part, assess, classify the image, write;
\* the classifier is trained once, before any predict call, and the one
\* trained classifier gives both the test predictions and the image labels.
C19_StageOrder ==
    [][dialog = "supervised" =>
          /\ pc' # pc => <<pc, pc'>> \in SupervisedOrder
          /\ classifier' # classifier =>
                \/ /\ pc = "extracted" /\ pc' = "trained"
                   /\ classifier = None /\ y_pred = None /\ labels = None
                \/ pc' = "start" /\ classifier' = None
          /\ (y_pred' # y_pred /\ y_pred' # None) =>
                /\ pc = "extracted" /\ classifier' # None
                /\ y_pred'.v = TreePredict(classifier', split.X_test,
                                           nan_support).labels
          /\ (labels' # labels /\ labels' # None) =>
                /\ pc = "assessed" /\ classifier # None /\ results # None
                /\ labels'.v = TreePredict(classifier, FlattenPixels(image_array),
                                           nan_support).labels
          /\ output' # output /\ output' # None =>
                pc = "classified" /\ labels # None]_vars

\* A supervised run has gone through all its stages and written its raster.
C19_Witness ==
    /\ dialog = "supervised" /\ pc = "done"
    /\ classifier # None /\ y_pred # None /\ results # None
    /\ labels # None /\ output # None

\* C20: a run in which a stage has failed, or the algorithm was refused, has
\* written no classification raster.
C20_AllOrNothing ==
    (pc \in {"failed", "rejected"} \/ error # "") => output = None

\* A supervised run has failed in the classification of the whole image,
\* after training and assessment went through, and has written nothing.
C20_Witness ==
    /\ dialog = "supervised" /\ pc = "failed"
    /\ results # None /\ flat_image # None /\ labels = None
    /\ output = None

\* The text of the algorithm combo box is not the one the dialog handles.
Unregistered ==
    \/ dialog = "supervised" /\ algorithm # "Decision Tree"
    \/ dialog = "unsupervised" /\ algorithm # "K-Means"

\* C21: with an algorithm name that is not registered the run reports an
\* UnsupportedAlgorithmError before it computes anything: no band is
\* stacked, no sample extracted, no pixel flattened.
C21_UnsupportedBeforeComputation ==
    (Unregistered /\ pc # "start") =>
        /\ error = "UnsupportedAlgorithmError"
        /\ image_array = None /\ split = None /\ flat_image = None

\* C22: once stack_bands has returned, no later stage of the run changes the
\* stacked pixels or the reference metadata the preprocessor holds.
C22_StackImmutable ==
    [][(image_array # None /\ pc' # "start") =>
          (image_array' = image_array /\ meta' = meta)]_vars

\* C25: report is a function of (y_true, y_pred) alone: a second call on the
\* same assessor returns what the first returned, and no call changes
\* y_true, y_pred or anything else of the assessor.
C25_ReportPure ==
    [][calls' = calls + 1 =>
          /\ assessor' = assessor
          /\ pc' = "reported" =>
                results' = Report(assessor.y_true, assessor.y_pred)
          /\ calls >= 1 =>
                (results' = results /\ pc' = pc /\ error' = error)]_vars

\* report has returned twice on the reference scenario.
C25_Witness ==
    /\ pc = "reported" /\ calls = 2 /\ ReferencePair
    /\ results = Report(<<0, 0, 1, 1>>, <<0, 1, 1, 1>>)

\* ----------------------------------------------- claims on KMeans directly

\* fit has returned on the model.
Fitted == pc \in {"fitted", "labelled"}

C24_ClassifyStable ==
    [][calls' = calls + 1 =>
          /\ classifier' = classifier
          /\ labels'.v = KMeansClassify(classifier.centers.v, call.X)
          /\ calls >= 1 => labels' = labels]_vars

\* classify has returned twice, with rows in more than one cluster.
C24_Witness ==
    /\ pc = "labelled" /\ calls = 2
    /\ Len(labels.v) = Len(call.X)
    /\ Cardinality(Range(labels.v)) >= 2

\* -------------------------------------------- claims on the reference metadata

LastFile == selected_band_files[NBands]

\* C26: for a list of one or more band files, the metadata stack_bands keeps
\* and returns is that of the last file of the list.
C26_MetaOfLastFile ==
    (pc = "stacked" /\ NBands >= 1) =>
        meta = [transform |-> LastFile.id, height |-> LastFile.rows,
                width |-> LastFile.cols, count |-> LastFile.count,
                dtype |-> "float32"]

\* Two files of one size that differ in georeferencing and band count were
\* stacked: the metadata is the second file's.
C26_Witness ==
    /\ pc = "stacked" /\ NBands = 2
    /\ selected_band_files[1].id # selected_band_files[2].id
    /\ selected_band_files[1].count # selected_band_files[2].count
    /\ meta.transform = selected_band_files[2].id
    /\ meta.count = selected_band_files[2].count

\* C27: extract_training_data called while image_array or meta is unset
\* raises ValueError before it reads the shapefile and changes nothing of the
\* preprocessor; called after a successful stack_bands it gets past that
\* check, to the reading of the shapefile.
C27_ExtractNeedsStack ==
    [][calls' = calls + 1 =>
          IF image_array = None \/ meta = None
            THEN /\ error' = "ValueError" /\ split' = None
                 /\ shp_read' = FALSE
                 /\ image_array' = image_array /\ meta' = meta
            ELSE shp_read' = TRUE]_vars

\* The first call came before stack_bands and raised; the second came after
\* it and returned a split.
C27_Witness ==
    /\ calls = 2 /\ error = "ValueError"
    /\ image_array # None /\ pc = "extracted" /\ split # None /\ shp_read

\* ------------------------------------------------ claims on the written values

\* C28: on the supervised path the value written for a pixel is the predicted
\* label mod 256: the label itself exactly when it is in 0..255, and one
\* value for two labels that are congruent mod 256.
C28_WrittenMod256 ==
    (dialog = "supervised" /\ output # None) =>
        /\ Len(output.data.buf) = Len(labels.v)
        /\ \A i \in 1..Len(labels.v) :
              /\ output.data.buf[i] \in 0..255
              /\ (labels.v[i] - output.data.buf[i]) % 256 = 0
              /\ (output.data.buf[i] = labels.v[i]) <=> (labels.v[i] \in 0..255)
        /\ \A i, j \in 1..Len(labels.v) :
              (labels.v[i] - labels.v[j]) % 256 = 0 =>
                  output.data.buf[i] = output.data.buf[j]

\* A raster was written in which a pixel predicted 1 and a pixel predicted
\* 257 both hold 1.
C28_Witness ==
    /\ dialog = "supervised" /\ output # None
    /\ \E i, j \in 1..Len(labels.v) :
          /\ labels.v[i] = 1 /\ labels.v[j] = 257
          /\ output.data.buf[i] = 1 /\ output.data.buf[j] = 1

\* C29: for every pair of non-empty arrays of one length, those with an
\* expected agreement of 1 included, report returns a kappa that is a number:
\* no division by zero.
C29_KappaDefined ==
    ReportCalledOnPair => (results # None /\ results.kappa.den # 0)

\* ------------------------------------------------ claims on the main window

LoadedPaths == {layer_items[i].path : i \in 1..Len(layer_items)}

\* C30: the tree and layer_items correspond one to one: as many entries with
\* a name as loaded paths with that file name, every entry standing for a
\* loaded layer of its name whose graphics item is in the scene, no two
\* entries for one layer, and the scene holding the items of the loaded
\* paths and no other.
C30_TreeMatchesItems ==
    /\ Len(layer_tree) = Len(layer_items)
    /\ \A i \in 1..Len(layer_tree) :
          /\ Cardinality({j \in 1..Len(layer_tree) :
                              layer_tree[j].text = layer_tree[i].text})
                = Cardinality({q \in LoadedPaths :
                                  FileName(q) = layer_tree[i].text})
          /\ layer_tree[i].origin \in LoadedPaths
          /\ layer_tree[i].origin \in scene
          /\ \A j \in 1..Len(layer_tree) :
                layer_tree[j].origin = layer_tree[i].origin => i = j
    /\ scene = {layer_items[i].item : i \in 1..Len(layer_items)}

=============================================================================
